---------------------------- MODULE Spec2Model ----------------------------
(***************************************************************************)
(* Model of src/app.py (Finanzas Familiares): the ledger save               *)
(* (save_to_gsheet), the statement extractors, format detection             *)
(* (process_pdf), reconciliation (main block) and classification            *)
(* (apply_rules).                                                           *)
(*                                                                          *)
(* Text is a sequence of one-character strings.  Amounts are the floats of  *)
(* the program written in hundredths (1250000.0 is 125000000), so that the  *)
(* decimal comma of parse_monto_chile is kept.                              *)
(***************************************************************************)
EXTENDS Integers, Sequences, FiniteSets, TLC

VARIABLES
    \* the worksheet Finanzas_Master_DB: its record rows, below the header
    sheet,
    \* per session: position in save_to_gsheet and its locals
    pc, df_new, df_current, df_final, ret, status,
    \* history: the sheet when the save was called, the batch of the
    \* successful save that ended just before (a set of at most one), the
    \* saves begun, and per session whether its save overlapped another
    before, prev_batch, nsaves, overlap,
    \* one uploaded document: its text line by line, the position in
    \* process_pdf and the extractor it called, the extractor's locals
    doc, dpc, extractor, banco_name, lines, idx, transactions,
    total_detected, found,
    \* main: what process_pdf returned and the validation widget
    txs, total_pdf, is_valid, icon, branch,
    \* apply_rules: its argument, its result, the result of applying it again
    rpc, rdf, rout, rout2

saveVars == <<sheet, pc, df_new, df_current, df_final, ret, status,
              before, prev_batch, nsaves, overlap>>
docVars == <<doc, dpc, extractor, banco_name, lines, idx, transactions,
             total_detected, found, txs, total_pdf, is_valid, icon, branch>>
rulesVars == <<rpc, rdf, rout, rout2>>
vars == <<saveVars, docVars, rulesVars>>

--------------------------------------------------------------------------
(* Text: str.upper, str.lower, `in`, str.replace, str.strip, str.split    *)

LowerLetters == <<"a","b","c","d","e","f","g","h","i","j","k","l","m","n","o","p","q","r","s","t","u","v","w","x","y","z","í","ó">>
UpperLetters == <<"A","B","C","D","E","F","G","H","I","J","K","L","M","N","O","P","Q","R","S","T","U","V","W","X","Y","Z","Í","Ó">>
DigitChars == <<"0","1","2","3","4","5","6","7","8","9">>

Range(s) == { s[i] : i \in 1..Len(s) }
IndexIn(c, s) == CHOOSE i \in 1..Len(s) : s[i] = c

UpperTable == [c \in Range(LowerLetters) |-> UpperLetters[IndexIn(c, LowerLetters)]]
LowerTable == [c \in Range(UpperLetters) |-> LowerLetters[IndexIn(c, UpperLetters)]]
DigitTable == [c \in Range(DigitChars) |-> IndexIn(c, DigitChars) - 1]

Digits == Range(DigitChars)
Spaces == {" "}

UpperChar(c) == IF c \in DOMAIN UpperTable THEN UpperTable[c] ELSE c
LowerChar(c) == IF c \in DOMAIN LowerTable THEN LowerTable[c] ELSE c

\* str.upper(), str.lower()
Upper(s) == [i \in 1..Len(s) |-> UpperChar(s[i])]
Lower(s) == [i \in 1..Len(s) |-> LowerChar(s[i])]

MatchAt(s, i, sub) ==
    /\ i + Len(sub) - 1 <= Len(s)
    /\ \A k \in 1..Len(sub) : s[i + k - 1] = sub[k]

\* sub in s
Contains(s, sub) == \E i \in 1..(Len(s) - Len(sub) + 1) : MatchAt(s, i, sub)

\* s.replace(a, '') for every a in cs
Remove(s, cs) == SelectSeq(s, LAMBDA c : c \notin cs)

\* s.replace(a, b), one character for another
Replace(s, a, b) == [i \in 1..Len(s) |-> IF s[i] = a THEN b ELSE s[i]]

RECURSIVE Strip(_)
\* s.strip()
Strip(s) ==
    IF s = <<>> THEN s
    ELSE IF s[1] \in Spaces THEN Strip(Tail(s))
    ELSE IF s[Len(s)] \in Spaces THEN Strip(SubSeq(s, 1, Len(s) - 1))
    ELSE s

RECURSIVE Join(_)
\* full_text += page.extract_text() + "\n", the text given line by line
Join(ls) == IF ls = <<>> THEN <<>> ELSE ls[1] \o <<"\n">> \o Join(Tail(ls))

RECURSIVE Split(_)
\* full_text.split('\n')
Split(s) ==
    IF "\n" \notin Range(s) THEN <<s>>
    ELSE LET i == CHOOSE i \in 1..Len(s) :
                      s[i] = "\n" /\ \A j \in 1..(i-1) : s[j] # "\n"
         IN  <<SubSeq(s, 1, i - 1)>> \o Split(SubSeq(s, i + 1, Len(s)))

\* the last index of the run of characters of `class` that starts at i
\* (i - 1 when s[i] is not one)
RunEnd(s, i, class) ==
    LET stop == { j \in i..Len(s) : s[j] \notin class }
    IN  IF stop = {} THEN Len(s)
        ELSE (CHOOSE j \in stop : \A k \in stop : j <= k) - 1

--------------------------------------------------------------------------
(* parse_monto_chile *)

RECURSIVE DigitsVal(_)
DigitsVal(ds) ==
    IF ds = <<>> THEN 0
    ELSE 10 * DigitsVal(SubSeq(ds, 1, Len(ds) - 1)) + DigitTable[ds[Len(ds)]]

Unsigned(t) == IF t # <<>> /\ t[1] = "-" THEN Tail(t) ELSE t

\* float(clean) succeeds: an optional sign, digits with at most one point,
\* at least one digit (the characters a captured amount can hold)
FloatOk(t) ==
    LET u == Unsigned(t)
    IN  /\ Range(u) \subseteq Digits \cup {"."}
        /\ Len(SelectSeq(u, LAMBDA c : c = ".")) <= 1
        /\ \E i \in 1..Len(u) : u[i] \in Digits

\* float(clean), in hundredths; the texts of the model carry at most two
\* decimals
FloatVal(t) ==
    LET u == Unsigned(t)
        e == RunEnd(u, 1, Digits)
        frac == SubSeq(u, e + 2, Len(u))
        cents == DigitsVal(SubSeq(frac \o <<"0", "0">>, 1, 2))
        abs == DigitsVal(SubSeq(u, 1, e)) * 100 + cents
    IN  IF t[1] = "-" THEN 0 - abs ELSE abs

\* parse_monto_chile: '$ 1.250.000' is 1250000.0; 0.0 when float() raises
parse_monto_chile(monto_str) ==
    LET clean == Replace(Remove(Remove(monto_str, {"$", " "}), {"."}), ",", ".")
    IN  IF FloatOk(clean) THEN FloatVal(clean) ELSE 0

--------------------------------------------------------------------------
(* The regular expressions of the extractors *)

Min(S) == CHOOSE x \in S : \A y \in S : x <= y

NoMatch == [ok |-> FALSE, fecha |-> <<>>, desc |-> <<>>, monto |-> <<>>]

\* -?\$?\s?[class]+ at j, each optional part present only when the pattern
\* has it: the index of the last character matched, 0 when there is no
\* match at j.  What an optional part can take, the class cannot, so taking
\* it greedily loses no match.
AmountEnd(s, j, minus, dollar, space, class) ==
    LET p1 == IF minus /\ j <= Len(s) /\ s[j] = "-" THEN j + 1 ELSE j
        p2 == IF dollar /\ p1 <= Len(s) /\ s[p1] = "$" THEN p1 + 1 ELSE p1
        p3 == IF space /\ p2 <= Len(s) /\ s[p2] \in Spaces THEN p2 + 1 ELSE p2
        e == RunEnd(s, p3, class)
    IN  IF e >= p3 THEN e ELSE 0

\* \d{2}[seps]\d{2}[seps]\d{2,4} at i with \s after it: the index of the
\* last digit, 0 when there is no match at i
DateEnd(s, i, seps) ==
    IF /\ i + 8 <= Len(s)
       /\ {s[i], s[i+1], s[i+3], s[i+4]} \subseteq Digits
       /\ {s[i+2], s[i+5]} \subseteq seps
    THEN LET e == RunEnd(s, i + 6, Digits)
         IN  IF e - (i + 5) \in 2..4 /\ e < Len(s) /\ s[e + 1] \in Spaces
             THEN e ELSE 0
    ELSE 0

\* (date)\s+(.+?)\s+(amount) at i.  The first \s+ is greedy and gives back
\* one space at a time (w spaces taken); the description is lazy (ends at
\* b, the least that lets the rest match); the second \s+ takes its whole
\* run, after which the amount starts at q.
TxMatchAt(s, i, seps, dollar, space, class) ==
    LET de == DateEnd(s, i, seps)
    IN  IF de = 0 THEN NoMatch
        ELSE
        LET W == RunEnd(s, de + 1, Spaces) - de
            Q(b) == RunEnd(s, b + 1, Spaces) + 1
            Ok(w, b) ==
                /\ b < Len(s)
                /\ s[b + 1] \in Spaces
                /\ AmountEnd(s, Q(b), TRUE, dollar, space, class) # 0
            ws == { w \in 1..W : \E b \in (de + w + 1)..Len(s) : Ok(w, b) }
        IN  IF ws = {} THEN NoMatch
            ELSE
            LET w == CHOOSE x \in ws : \A y \in ws : y <= x
                b == Min({ x \in (de + w + 1)..Len(s) : Ok(w, x) })
            IN  [ok |-> TRUE,
                 fecha |-> SubSeq(s, i, de),
                 desc |-> SubSeq(s, de + w + 1, b),
                 monto |-> SubSeq(s, Q(b),
                                  AmountEnd(s, Q(b), TRUE, dollar, space, class))]

\* pattern.search(s): the match at the leftmost position that has one
TxSearch(s, seps, dollar, space, class) ==
    LET at == { i \in 1..Len(s) : TxMatchAt(s, i, seps, dollar, space, class).ok }
    IN  IF at = {} THEN NoMatch
        ELSE TxMatchAt(s, Min(at), seps, dollar, space, class)

\* rx_tx = (\d{2}/\d{2}/\d{2,4})\s+(.+?)\s+(-?\$?\s?[\d\.,]+)
rx_tx(s) == TxSearch(s, {"/"}, TRUE, TRUE, Digits \cup {".", ","})

\* rx = (\d{2}[/-]\d{2}[/-]\d{2,4})\s+(.+?)\s+(-?[\d\.]+)
rx(s) == TxSearch(s, {"/", "-"}, FALSE, FALSE, Digits \cup {"."})

TotalLabels == << <<"T","O","T","A","L"," ","A"," ","P","A","G","A","R">>, <<"M","O","N","T","O"," ","T","O","T","A","L">> >>

\* rx_total = (TOTAL A PAGAR|MONTO TOTAL).*?(\$?\s?[\d\.,]+), searched: the
\* leftmost label that has an amount somewhere after it, and the first
\* amount after that label (group 2, in `monto`)
rx_total(s) ==
    LET AmountsFrom(p) ==
            { j \in p..Len(s) :
                AmountEnd(s, j, FALSE, TRUE, TRUE, Digits \cup {".", ","}) # 0 }
        at == { i \in 1..Len(s) :
                  \E l \in 1..Len(TotalLabels) :
                      /\ MatchAt(s, i, TotalLabels[l])
                      /\ AmountsFrom(i + Len(TotalLabels[l])) # {} }
    IN  IF at = {} THEN NoMatch
        ELSE
        LET i == Min(at)
            l == Min({ x \in 1..Len(TotalLabels) :
                         /\ MatchAt(s, i, TotalLabels[x])
                         /\ AmountsFrom(i + Len(TotalLabels[x])) # {} })
            j == Min(AmountsFrom(i + Len(TotalLabels[l])))
        IN  [ok |-> TRUE, fecha |-> <<>>, desc |-> TotalLabels[l],
             monto |-> SubSeq(s, j,
                 AmountEnd(s, j, FALSE, TRUE, TRUE, Digits \cup {".", ","}))]

RECURSIVE FindAllFrom(_, _, _)
\* re.findall(r'[class]+', s), from index i on
FindAllFrom(s, i, class) ==
    IF i > Len(s) THEN <<>>
    ELSE IF s[i] \in class
         THEN <<SubSeq(s, i, RunEnd(s, i, class))>>
                  \o FindAllFrom(s, RunEnd(s, i, class) + 1, class)
         ELSE FindAllFrom(s, i + 1, class)

\* numeros = re.findall(r'[\d\.]+', line.replace(',', '.'))
Numeros(line) == FindAllFrom(Replace(line, ",", "."), 1, Digits \cup {"."})

\* re.match(r'^[\*\s\d]+$', desc)
OnlyMaskOrDigits(desc) ==
    desc # <<>> /\ Range(desc) \subseteq ({"*"} \cup Spaces \cup Digits)

--------------------------------------------------------------------------
(* Bounds *)

MaxBatch == 2
MaxSaves == 2
MaxConcBatch == 1
MaxConcSaves == 2

--------------------------------------------------------------------------
(* Transactions, the rows of the ledger *)

Tx(f, d, m, c, b) ==
    [Fecha |-> f, Descripcion |-> d, Monto |-> m, Categoria |-> c,
     Banco_Origen |-> b]

BancoCMR == <<"C","M","R"," ","F","a","l","a","b","e","l","l","a">>
BancoSantander == <<"B","a","n","c","o"," ","S","a","n","t","a","n","d","e","r">>
BancoBCI == <<"B","a","n","c","o"," ","B","C","I">>
BancoLiquidacion == <<"L","i","q","u","i","d","a","c","i","ó","n">>

\* Two records with one key and two categories, a record whose key differs
\* from theirs in Monto only, and one that differs in Fecha and Descripción.
Records ==
    { Tx(<<"0","1","/","0","2","/","2","3">>, <<"L","I","D","E","R">>, -500000, "Gasto General", BancoCMR),
      Tx(<<"0","1","/","0","2","/","2","3">>, <<"L","I","D","E","R">>, -500000, "Supermercado", BancoCMR),
      Tx(<<"0","1","/","0","2","/","2","3">>, <<"L","I","D","E","R">>, -700000, "Gasto General", BancoCMR),
      Tx(<<"1","5","/","0","3","/","2","3">>, <<"J","U","M","B","O">>, -500000, "Gasto General", BancoCMR) }

ConcRecords ==
    { Tx(<<"0","1","/","0","2","/","2","3">>, <<"L","I","D","E","R">>, -500000, "Gasto General", BancoCMR),
      Tx(<<"0","1","/","0","2","/","2","3">>, <<"L","I","D","E","R">>, -700000, "Gasto General", BancoCMR) }

SeqsUpTo(S, n) == UNION { [1..k -> S] : k \in 0..n }

Batches == SeqsUpTo(Records, MaxBatch)
ConcBatches == SeqsUpTo(ConcRecords, MaxConcBatch)

Sessions == {1, 2}

\* subset=['Fecha', 'Descripción', 'Monto']
Key(r) == <<r.Fecha, r.Descripcion, r.Monto>>
Keys(df) == { Key(df[i]) : i \in 1..Len(df) }

--------------------------------------------------------------------------
(* save_to_gsheet: the merge *)

ConcatNewOnly(cur, new) == new

\* if df_current.empty: df_combined = df_new
\* else: df_combined = pd.concat([df_current, df_new], ignore_index=True)
Concat(cur, new) == IF cur = <<>> THEN new ELSE cur \o new

RECURSIVE KeepLastFrom(_, _)
KeepLastFrom(df, i) ==
    IF i > Len(df) THEN <<>>
    ELSE (IF \E j \in (i+1)..Len(df) : Key(df[j]) = Key(df[i])
          THEN <<>> ELSE <<df[i]>>) \o KeepLastFrom(df, i + 1)

DropDuplicatesKeepAll(df) == df

\* df_combined.drop_duplicates(subset=[...], keep='last'); the Monto column
\* is float on both sides after astype(float), so keys compare by value.
DropDuplicates(df) == KeepLastFrom(df, 1)

\* return len(df_final) - len(df_current)
AddedCount(final, cur) == Len(final) - Len(cur)

Max(a, b) == IF a >= b THEN a ELSE b

WriteRowsShort(sh, rows) ==
    [i \in 1..Max(Len(sh), Len(rows) - 1) |->
        IF i <= Len(rows) - 1 THEN rows[i] ELSE sh[i]]

\* worksheet.update(header + rows): writes the rows from the first cell on;
\* rows of the sheet below the written range stay as they are.
WriteRows(sh, rows) ==
    [i \in 1..Max(Len(sh), Len(rows)) |->
        IF i <= Len(rows) THEN rows[i] ELSE sh[i]]

--------------------------------------------------------------------------
(* save_to_gsheet: the steps of one call by session s *)

Active(s) == pc[s] \in {"open", "read", "clear", "update"}
InCall(s) == pc[s] \in {"client", "open", "read", "clear", "update"}

\* the button handler calls save_to_gsheet(edited_df, ...)
Begin(s, b, limit) ==
    /\ pc[s] = "idle"
    /\ nsaves < limit
    /\ pc' = [pc EXCEPT ![s] = "client"]
    /\ df_new' = [df_new EXCEPT ![s] = b]
    /\ df_current' = [df_current EXCEPT ![s] = <<>>]
    /\ df_final' = [df_final EXCEPT ![s] = <<>>]
    /\ ret' = [ret EXCEPT ![s] = 0]
    /\ status' = [status EXCEPT ![s] = "running"]
    /\ before' = [before EXCEPT ![s] = sheet]
    /\ nsaves' = nsaves + 1
    /\ overlap' = [t \in Sessions |->
                      IF t = s THEN \E u \in Sessions \ {s} : InCall(u)
                      ELSE overlap[t] \/ InCall(t)]
    /\ UNCHANGED <<sheet, prev_batch>>
    /\ UNCHANGED <<docVars, rulesVars>>

\* client = get_gsheet_client()
ClientOk(s) ==
    /\ pc[s] = "client"
    /\ pc' = [pc EXCEPT ![s] = "open"]
    /\ UNCHANGED <<sheet, df_new, df_current, df_final, ret, status,
                   before, prev_batch, nsaves, overlap>>
    /\ UNCHANGED <<docVars, rulesVars>>

\* if not client: return 0
ClientMissing(s) ==
    /\ pc[s] = "client"
    /\ pc' = [pc EXCEPT ![s] = "done"]
    /\ ret' = [ret EXCEPT ![s] = 0]
    /\ status' = [status EXCEPT ![s] = "noclient"]
    /\ UNCHANGED <<sheet, df_new, df_current, df_final, before, prev_batch,
                   nsaves, overlap>>
    /\ UNCHANGED <<docVars, rulesVars>>

\* sh = client.open(sheet_name); worksheet = sh.sheet1
Open(s) ==
    /\ pc[s] = "open"
    /\ pc' = [pc EXCEPT ![s] = "read"]
    /\ UNCHANGED <<sheet, df_new, df_current, df_final, ret, status,
                   before, prev_batch, nsaves, overlap>>
    /\ UNCHANGED <<docVars, rulesVars>>

\* existing_data = worksheet.get_all_records() ... df_final = drop_duplicates
Read(s) ==
    /\ pc[s] = "read"
    /\ pc' = [pc EXCEPT ![s] = "clear"]
    /\ df_current' = [df_current EXCEPT ![s] = sheet]
    /\ df_final' = [df_final EXCEPT ![s] = DropDuplicates(Concat(sheet, df_new[s]))]
    /\ UNCHANGED <<sheet, df_new, ret, status, before, prev_batch, nsaves, overlap>>
    /\ UNCHANGED <<docVars, rulesVars>>

\* worksheet.clear()
Clear(s) ==
    /\ pc[s] = "clear"
    /\ sheet' = <<>>
    /\ pc' = [pc EXCEPT ![s] = "update"]
    /\ UNCHANGED <<df_new, df_current, df_final, ret, status,
                   before, prev_batch, nsaves, overlap>>
    /\ UNCHANGED <<docVars, rulesVars>>

\* worksheet.update(...); return len(df_final) - len(df_current)
Update(s) ==
    /\ pc[s] = "update"
    /\ sheet' = WriteRows(sheet, df_final[s])
    /\ ret' = [ret EXCEPT ![s] = AddedCount(df_final[s], df_current[s])]
    /\ status' = [status EXCEPT ![s] = "ok"]
    /\ pc' = [pc EXCEPT ![s] = "done"]
    /\ UNCHANGED <<df_new, df_current, df_final, before, prev_batch, nsaves, overlap>>
    /\ UNCHANGED <<docVars, rulesVars>>

\* except Exception as e: st.error(...); return 0
\* The call at the session's position raises and has no effect.
Fail(s) ==
    /\ Active(s)
    /\ pc' = [pc EXCEPT ![s] = "done"]
    /\ ret' = [ret EXCEPT ![s] = 0]
    /\ status' = [status EXCEPT ![s] = "error"]
    /\ UNCHANGED <<sheet, df_new, df_current, df_final, before, prev_batch,
                   nsaves, overlap>>
    /\ UNCHANGED <<docVars, rulesVars>>

\* the handler reports `added`; the session can save again
Finish(s) ==
    /\ pc[s] = "done"
    /\ pc' = [pc EXCEPT ![s] = "idle"]
    /\ prev_batch' = IF status[s] = "ok" THEN {df_new[s]} ELSE {}
    /\ UNCHANGED <<sheet, df_new, df_current, df_final, ret, status,
                   before, nsaves, overlap>>
    /\ UNCHANGED <<docVars, rulesVars>>

--------------------------------------------------------------------------
(* Documents: the text of an uploaded PDF, line by line *)

MaxLines == 3

LinePool ==
    { <<"E","s","t","a","d","o"," ","C","M","R"," ","F","a","l","a","b","e","l","l","a">>,
      <<"B","a","n","c","o"," ","S","a","n","t","a","n","d","e","r">>,
      <<"C","a","r","t","o","l","a"," ","B","C","I">>,
      <<"L","I","Q","U","I","D","A","C","I","O","N"," ","S","a","m","s","o","n","i","t","e">>,
      <<"T","o","t","a","l"," ","a"," ","p","a","g","a","r",","," ","v","e","r"," ","d","e","t","a","l","l","e">>,
      <<"T","O","T","A","L"," ","A"," ","P","A","G","A","R"," ","$"," ","0">>,
      <<"M","O","N","T","O"," ","T","O","T","A","L"," ","A"," ","P","A","G","A","R"," ","$"," ","2","5",".","0","0","0">>,
      <<"T","O","T","A","L"," ","A"," ","P","A","G","A","R"," ","$"," ","2","1",".","5","0","0">>,
      <<"0","1","/","0","2","/","2","3"," ","C","O","M","P","R","A"," ","L","I","D","E","R"," ","$"," ","2","0",".","0","0","0">>,
      <<"0","2","/","0","2","/","2","3"," ","*","*","*","*"," ","1","2","3","4"," ","$"," ","9",".","0","0","0">>,
      <<"L","Í","Q","U","I","D","O"," ","A"," ","P","A","G","O"," ","1",".","2","5","0",".","0","0","0">> }

Docs == SeqsUpTo(LinePool, MaxLines)

\* pd.Timestamp.now().strftime("%d/%m/%Y")
Hoy == <<"0","6","/","1","1","/","2","0","2","6">>

Abs(x) == IF x < 0 THEN 0 - x ELSE x

RECURSIVE SumMonto(_)
\* df_temp['Monto'].sum()
SumMonto(ts) == IF ts = <<>> THEN 0 ELSE ts[1].Monto + SumMonto(Tail(ts))

--------------------------------------------------------------------------
(* extract_cmr_falabella: one iteration of `for line in lines` *)

\* A. if total_detected == 0: match_total = rx_total.search(line_upper) ...
CmrTotal(line, total) ==
    LET match_total == rx_total(Upper(line))
    IN  IF total = 0 /\ match_total.ok
        THEN parse_monto_chile(match_total.monto)
        ELSE total

\* B. the three `continue` filters
CmrSkip(line) ==
    LET line_upper == Upper(line)
    IN  \/ Contains(line, <<"*","*","*","*">>) /\ ~Contains(line_upper, <<"C","O","M","P","R","A">>)
        \/ Contains(line_upper, <<"S","A","L","D","O"," ","A","N","T","E","R","I","O","R">>)
        \/ Contains(line_upper, <<"P","A","G","O"," ","R","E","C","I","B","I","D","O">>)
        \/ Len(line) < 15

\* C. match = rx_tx.search(line); if match: ... transactions.append(...)
CmrRow(line, match) ==
    LET desc == Strip(match.desc)
        monto == parse_monto_chile(match.monto)
    IN  IF CmrSkip(line) \/ ~match.ok \/ OnlyMaskOrDigits(desc) THEN <<>>
        ELSE << Tx(match.fecha, desc, IF monto > 0 THEN 0 - monto ELSE monto,
                   "Gasto General", BancoCMR) >>

\* the transactions the line appends: none or one
CmrTx(line) == CmrRow(line, rx_tx(line))

--------------------------------------------------------------------------
(* extract_banco_generico: one iteration *)

\* match = rx.search(line); if match: ... transactions.append(...)
GenericoRow(match, banco) ==
    LET desc == Strip(match.desc)
    IN  IF ~match.ok \/ Contains(Upper(desc), <<"S","A","L","D","O">>) THEN <<>>
        ELSE << Tx(match.fecha, desc, parse_monto_chile(match.monto),
                   "Gasto General", banco) >>

\* the transactions the line appends: none or one
GenericoTx(line, banco) == GenericoRow(rx(line), banco)

--------------------------------------------------------------------------
(* extract_sueldo_samsonite: one iteration *)

\* "LÍQUIDO A PAGO" in line.upper() or "A PAGAR" in line.upper()
SueldoLabel(line) ==
    \/ Contains(Upper(line), <<"L","Í","Q","U","I","D","O"," ","A"," ","P","A","G","O">>)
    \/ Contains(Upper(line), <<"A"," ","P","A","G","A","R">>)

SueldoTx(line) ==
    LET numeros == Numeros(line)
    IN  Tx(Hoy, <<"S","u","e","l","d","o"," ","S","a","m","s","o","n","i","t","e">>,
           Abs(parse_monto_chile(numeros[Len(numeros)])),
           "Ingreso Familiar", BancoLiquidacion)

SueldoStepNoBreak(line, ts) ==
    IF SueldoLabel(line) /\ Numeros(line) # <<>>
    THEN [transactions |-> Append(ts, SueldoTx(line)), found |-> TRUE,
          break |-> FALSE]
    ELSE [transactions |-> ts, found |-> FALSE, break |-> FALSE]

\* the body of the loop: the transactions after it, whether it set `found`,
\* whether it left the loop
SueldoStep(line, ts) ==
    IF SueldoLabel(line) /\ Numeros(line) # <<>>
    THEN [transactions |-> Append(ts, SueldoTx(line)), found |-> TRUE,
          break |-> TRUE]
    ELSE [transactions |-> ts, found |-> FALSE, break |-> FALSE]

--------------------------------------------------------------------------
(* process_pdf: the detector *)

DetectorSantanderFirst(full_text) ==
    LET lower_text == Lower(full_text)
    IN  IF Contains(lower_text, <<"s","a","n","t","a","n","d","e","r">>) THEN "santander"
        ELSE IF Contains(lower_text, <<"f","a","l","a","b","e","l","l","a">>) \/ Contains(lower_text, <<"c","m","r">>)
        THEN "cmr"
        ELSE IF Contains(lower_text, <<"b","c","i">>) THEN "bci"
        ELSE IF Contains(lower_text, <<"s","a","m","s","o","n","i","t","e">>)
                \/ Contains(lower_text, <<"l","i","q","u","i","d","a","c","i","o","n">>) THEN "sueldo"
        ELSE "none"

\* the branch of `if ... elif ... else` that process_pdf takes
Detector(full_text) ==
    LET lower_text == Lower(full_text)
    IN  IF Contains(lower_text, <<"f","a","l","a","b","e","l","l","a">>) \/ Contains(lower_text, <<"c","m","r">>)
        THEN "cmr"
        ELSE IF Contains(lower_text, <<"s","a","n","t","a","n","d","e","r">>) THEN "santander"
        ELSE IF Contains(lower_text, <<"b","c","i">>) THEN "bci"
        ELSE IF Contains(lower_text, <<"s","a","m","s","o","n","i","t","e">>)
                \/ Contains(lower_text, <<"l","i","q","u","i","d","a","c","i","o","n">>) THEN "sueldo"
        ELSE "none"

\* txs, total_pdf = process_pdf(pdf), up to the call of the extractor
ProcessPdf ==
    /\ dpc = "process_pdf"
    /\ LET full_text == Join(doc)
           format == Detector(full_text)
       IN  /\ lines' = Split(full_text)
           /\ extractor' = CASE format = "cmr" -> "extract_cmr_falabella"
                             [] format \in {"santander", "bci"} -> "extract_banco_generico"
                             [] format = "sueldo" -> "extract_sueldo_samsonite"
                             [] OTHER -> "none"
           /\ banco_name' = CASE format = "santander" -> BancoSantander
                              [] format = "bci" -> BancoBCI
                              [] OTHER -> <<>>
           \* else: return [], 0.0
           /\ dpc' = IF format = "none" THEN "returned" ELSE "loop"
    /\ idx' = 0
    /\ transactions' = <<>>
    /\ total_detected' = 0
    /\ found' = FALSE
    /\ txs' = <<>>
    /\ total_pdf' = 0
    /\ UNCHANGED <<doc, is_valid, icon, branch>>
    /\ UNCHANGED <<saveVars, rulesVars>>

InLoop(name) == dpc = "loop" /\ extractor = name /\ idx < Len(lines)
LoopOver(name) == dpc = "loop" /\ extractor = name /\ idx = Len(lines)

CmrLine ==
    /\ InLoop("extract_cmr_falabella")
    /\ idx' = idx + 1
    /\ total_detected' = CmrTotal(lines[idx + 1], total_detected)
    /\ transactions' = transactions \o CmrTx(lines[idx + 1])
    /\ UNCHANGED <<doc, dpc, extractor, banco_name, lines, found, txs,
                   total_pdf, is_valid, icon, branch>>
    /\ UNCHANGED <<saveVars, rulesVars>>

\* return transactions, total_detected
CmrReturn ==
    /\ LoopOver("extract_cmr_falabella")
    /\ dpc' = "returned"
    /\ txs' = transactions
    /\ total_pdf' = total_detected
    /\ UNCHANGED <<doc, extractor, banco_name, lines, idx, transactions,
                   total_detected, found, is_valid, icon, branch>>
    /\ UNCHANGED <<saveVars, rulesVars>>

GenericoLine ==
    /\ InLoop("extract_banco_generico")
    /\ idx' = idx + 1
    /\ transactions' = transactions \o GenericoTx(lines[idx + 1], banco_name)
    /\ UNCHANGED <<doc, dpc, extractor, banco_name, lines, total_detected,
                   found, txs, total_pdf, is_valid, icon, branch>>
    /\ UNCHANGED <<saveVars, rulesVars>>

\* return transactions, 0.0
GenericoReturn ==
    /\ LoopOver("extract_banco_generico")
    /\ dpc' = "returned"
    /\ txs' = transactions
    /\ total_pdf' = 0
    /\ UNCHANGED <<doc, extractor, banco_name, lines, idx, transactions,
                   total_detected, found, is_valid, icon, branch>>
    /\ UNCHANGED <<saveVars, rulesVars>>

SueldoLine ==
    /\ InLoop("extract_sueldo_samsonite")
    /\ LET step == SueldoStep(lines[idx + 1], transactions)
       IN  /\ transactions' = step.transactions
           /\ found' = (found \/ step.found)
           /\ dpc' = IF step.break THEN "break" ELSE dpc
    /\ idx' = idx + 1
    /\ UNCHANGED <<doc, extractor, banco_name, lines, total_detected, txs,
                   total_pdf, is_valid, icon, branch>>
    /\ UNCHANGED <<saveVars, rulesVars>>

\* return transactions, 0.0 (after the last line, or after `break`)
SueldoReturn ==
    /\ \/ LoopOver("extract_sueldo_samsonite")
       \/ dpc = "break"
    /\ dpc' = "returned"
    /\ txs' = transactions
    /\ total_pdf' = 0
    /\ UNCHANGED <<doc, extractor, banco_name, lines, idx, transactions,
                   total_detected, found, is_valid, icon, branch>>
    /\ UNCHANGED <<saveVars, rulesVars>>

--------------------------------------------------------------------------
(* main: the validation widget *)

Tolerance == 2000

\* diff = abs(abs(total_pdf) - abs(suma_txs))
Diff(total, suma) == Abs(Abs(total) - Abs(suma))

\* is_valid = diff < 2000, amounts in hundredths
IsValid(total, suma) == Diff(total, suma) < Tolerance * 100

IconValidOnly(valid, total) == IF valid THEN "ok" ELSE "warn"

\* icon = "ok" if (is_valid or total_pdf == 0) else "warn"
Icon(valid, total) == IF valid \/ total = 0 THEN "ok" ELSE "warn"

\* if total_pdf > 0 and not is_valid: c3.error, st.warning; else: c3.success
Branch(valid, total) == IF total > 0 /\ ~valid THEN "error" ELSE "success"

\* if txs: ... else: st.warning("No se encontraron datos")
Validate ==
    /\ dpc = "returned"
    /\ dpc' = "shown"
    /\ IF txs # <<>>
       THEN LET suma_txs == SumMonto(txs)
            IN  /\ is_valid' = IsValid(total_pdf, suma_txs)
                /\ icon' = Icon(IsValid(total_pdf, suma_txs), total_pdf)
                /\ branch' = Branch(IsValid(total_pdf, suma_txs), total_pdf)
       ELSE /\ branch' = "nodata"
            /\ UNCHANGED <<is_valid, icon>>
    /\ UNCHANGED <<doc, extractor, banco_name, lines, idx, transactions,
                   total_detected, found, txs, total_pdf>>
    /\ UNCHANGED <<saveVars, rulesVars>>

--------------------------------------------------------------------------
(* apply_rules *)

MaxRows == 2

RuleDescs ==
    { <<"T","R","A","N","S","F"," ","M","A","R","C","E","L","O"," ","C","O","N","T","R","E","R","A","S"," ","L","I","D","E","R">>,
      <<"M","a","r","c","e","l","a"," ","C","o","n","t","r","e","r","a","s">>,
      <<"M","A","R","C","E","L","A"," ","C","O","N","T","R","E","R","A","S"," ","A"," ","M","A","R","C","E","L","O"," ","C","O","N","T","R","E","R","A","S">>,
      <<"E","D","I","P","R","O"," ","J","U","M","B","O">>,
      <<"C","a","r","o","l"," ","U","r","z","u","a">>,
      <<"C","O","M","P","R","A"," ","T","O","T","U","S">>,
      <<"F","A","R","M","A","C","I","A">> }

RuleRows ==
    { Tx(<<"0","1","/","0","2","/","2","3">>, d, -500000, c, b) :
        d \in RuleDescs, c \in {"Gasto General", "Transporte"},
        b \in {BancoCMR, BancoLiquidacion} }

RuleBatches == SeqsUpTo(RuleRows, MaxRows)

categorizeSuperFirst(row) ==
    LET desc == Upper(row.Descripcion)
        banco == Upper(row.Banco_Origen)
    IN  IF Contains(banco, <<"L","I","Q","U","I","D","A","C","I","Ó","N">>) THEN "Ingreso Familiar"
        ELSE IF Contains(desc, <<"M","A","R","C","E","L","A"," ","C","O","N","T","R","E","R","A","S">>) THEN "Ingreso Familiar"
        ELSE IF Contains(desc, <<"T","O","T","U","S">>) \/ Contains(desc, <<"L","I","D","E","R">>)
                \/ Contains(desc, <<"J","U","M","B","O">>) THEN "Supermercado"
        ELSE IF Contains(desc, <<"M","A","R","C","E","L","O"," ","C","O","N","T","R","E","R","A","S">>) THEN "Arriendo"
        ELSE IF Contains(desc, <<"E","D","I","P","R","O">>) \/ Contains(desc, <<"C","A","R","O","L"," ","U","R","Z","U","A">>)
        THEN "Gastos Comunes"
        ELSE row.Categoria

categorizeByCategory(row) ==
    LET desc == Upper(row.Descripcion)
        banco == Upper(row.Banco_Origen)
    IN  IF Contains(banco, <<"L","I","Q","U","I","D","A","C","I","Ó","N">>) THEN "Ingreso Familiar"
        ELSE IF Contains(desc, <<"M","A","R","C","E","L","A"," ","C","O","N","T","R","E","R","A","S">>) THEN "Ingreso Familiar"
        ELSE IF Contains(desc, <<"M","A","R","C","E","L","O"," ","C","O","N","T","R","E","R","A","S">>) THEN "Arriendo"
        ELSE IF Contains(desc, <<"E","D","I","P","R","O">>) \/ Contains(desc, <<"C","A","R","O","L"," ","U","R","Z","U","A">>)
        THEN "Gastos Comunes"
        ELSE IF row.Categoria = "Gasto General"
                /\ (Contains(desc, <<"T","O","T","U","S">>) \/ Contains(desc, <<"L","I","D","E","R">>)
                    \/ Contains(desc, <<"J","U","M","B","O">>)) THEN "Supermercado"
        ELSE "Gasto General"

\* def categorize(row)
categorize(row) ==
    LET desc == Upper(row.Descripcion)
        banco == Upper(row.Banco_Origen)
    IN  IF Contains(banco, <<"L","I","Q","U","I","D","A","C","I","Ó","N">>) THEN "Ingreso Familiar"
        ELSE IF Contains(desc, <<"M","A","R","C","E","L","A"," ","C","O","N","T","R","E","R","A","S">>) THEN "Ingreso Familiar"
        ELSE IF Contains(desc, <<"M","A","R","C","E","L","O"," ","C","O","N","T","R","E","R","A","S">>) THEN "Arriendo"
        ELSE IF Contains(desc, <<"E","D","I","P","R","O">>) \/ Contains(desc, <<"C","A","R","O","L"," ","U","R","Z","U","A">>)
        THEN "Gastos Comunes"
        ELSE IF Contains(desc, <<"T","O","T","U","S">>) \/ Contains(desc, <<"L","I","D","E","R">>)
                \/ Contains(desc, <<"J","U","M","B","O">>) THEN "Supermercado"
        ELSE row.Categoria

\* if df.empty: return df; df['Categoría'] = df.apply(categorize, axis=1)
apply_rules(df) ==
    IF df = <<>> THEN df
    ELSE [i \in 1..Len(df) |-> [df[i] EXCEPT !.Categoria = categorize(df[i])]]

ApplyRules ==
    /\ rpc = "new"
    /\ rout' = apply_rules(rdf)
    /\ rpc' = "once"
    /\ UNCHANGED <<rdf, rout2>>
    /\ UNCHANGED <<saveVars, docVars>>

ApplyRulesAgain ==
    /\ rpc = "once"
    /\ rout2' = apply_rules(rout)
    /\ rpc' = "twice"
    /\ UNCHANGED <<rdf, rout>>
    /\ UNCHANGED <<saveVars, docVars>>

SaveIdle ==
    /\ sheet = <<>>
    /\ pc = [s \in Sessions |-> "idle"]
    /\ df_new = [s \in Sessions |-> <<>>]
    /\ df_current = [s \in Sessions |-> <<>>]
    /\ df_final = [s \in Sessions |-> <<>>]
    /\ ret = [s \in Sessions |-> 0]
    /\ status = [s \in Sessions |-> "none"]
    /\ before = [s \in Sessions |-> <<>>]
    /\ prev_batch = {}
    /\ nsaves = 0
    /\ overlap = [s \in Sessions |-> FALSE]

\* One session, one save at a time.
SeqNext ==
    \/ \E b \in Batches : Begin(1, b, MaxSaves)
    \/ ClientOk(1)
    \/ ClientMissing(1)
    \/ Open(1)
    \/ Read(1)
    \/ Clear(1)
    \/ Update(1)
    \/ Fail(1)
    \/ Finish(1)

\* Two sessions whose saves may interleave step by step.
ConcNext ==
    \E s \in Sessions :
        \/ \E b \in ConcBatches : Begin(s, b, MaxConcSaves)
        \/ ClientOk(s)
        \/ Open(s)
        \/ Read(s)
        \/ Clear(s)
        \/ Update(s)
        \/ Finish(s)



DocIdle ==
    /\ doc = <<>>
    /\ dpc = "idle"
    /\ extractor = "none"
    /\ banco_name = <<>>
    /\ lines = <<>>
    /\ idx = 0
    /\ transactions = <<>>
    /\ total_detected = 0
    /\ found = FALSE
    /\ txs = <<>>
    /\ total_pdf = 0
    /\ is_valid = FALSE
    /\ icon = ""
    /\ branch = ""

RulesIdle ==
    /\ rpc = "idle"
    /\ rdf = <<>>
    /\ rout = <<>>
    /\ rout2 = <<>>

\* A document has been uploaded.
DocUploaded ==
    /\ doc \in Docs
    /\ dpc = "process_pdf"
    /\ extractor = "none"
    /\ banco_name = <<>>
    /\ lines = <<>>
    /\ idx = 0
    /\ transactions = <<>>
    /\ total_detected = 0
    /\ found = FALSE
    /\ txs = <<>>
    /\ total_pdf = 0
    /\ is_valid = FALSE
    /\ icon = ""
    /\ branch = ""

DocNext ==
    \/ ProcessPdf
    \/ CmrLine
    \/ CmrReturn
    \/ GenericoLine
    \/ GenericoReturn
    \/ SueldoLine
    \/ SueldoReturn
    \/ Validate

\* A batch of transactions is about to be classified.
RulesLoaded ==
    /\ rdf \in RuleBatches
    /\ rpc = "new"
    /\ rout = <<>>
    /\ rout2 = <<>>

RulesNext == ApplyRules \/ ApplyRulesAgain

SaveInit == SaveIdle /\ DocIdle /\ RulesIdle
DocInit == SaveIdle /\ DocUploaded /\ RulesIdle
RulesInit == SaveIdle /\ DocIdle /\ RulesLoaded

SpecSeq == SaveInit /\ [][SeqNext]_vars
SpecConc == SaveInit /\ [][ConcNext]_vars
SpecDoc == DocInit /\ [][DocNext]_vars
SpecRules == RulesInit /\ [][RulesNext]_vars
--------------------------------------------------------------------------
(* Properties of the save *)

Done(s) == pc[s] = "done" /\ status[s] = "ok"

\* K: the batch records whose key occurs in the ledger or earlier in the batch
DupCount(led, batch) ==
    Cardinality({ i \in 1..Len(batch) :
                    \/ Key(batch[i]) \in Keys(led)
                    \/ \E j \in 1..(i-1) : Key(batch[j]) = Key(batch[i]) })

NoDupKeys(df) == \A i, j \in 1..Len(df) : Key(df[i]) = Key(df[j]) => i = j

C1_WitnessEmpty ==
    /\ Done(1)
    /\ before[1] = <<>>
    /\ DupCount(before[1], df_new[1]) > 0

\* C2: a save is all-or-nothing: after a failed save the stored ledger is
\* the ledger stored before it.
C2_AllOrNothing ==
    \A s \in Sessions :
        (pc[s] = "done" /\ status[s] = "error") => sheet = before[s]

\* No save is under way, session s completed its save, and a key of its
\* batch is not in the ledger.
Lost(s) ==
    /\ \A t \in Sessions : ~InCall(t)
    /\ Done(s)
    /\ \E k \in Keys(df_new[s]) : k \notin Keys(sheet)

\* C9: the save is a non-atomic read-clear-write: a completed save loses a
\* record only when its steps interleaved with another save's, and a state
\* where two saves completed and one lost a record is reachable.
C9_LostOnlyByRace == \A s \in Sessions : Lost(s) => overlap[s]

\* both saves completed without error and one session's record is lost
C9_Race == (\A s \in Sessions : Done(s)) /\ (\E s \in Sessions : Lost(s))

\* C10: after a successful save the ledger's keys are those of the ledger
\* before it and of the batch, each once; saving the batch of the save just
\* before again leaves the ledger as it was and returns 0.
C10_KeysUnion ==
    Done(1) =>
        /\ Keys(sheet) = Keys(before[1]) \cup Keys(df_new[1])
        /\ NoDupKeys(sheet)
        /\ df_new[1] \in prev_batch => (sheet = before[1] /\ ret[1] = 0)

\* the same batch, with records, saved a second time onto a ledger of at
\* least two records
C10_Witness ==
    /\ Done(1)
    /\ df_new[1] \in prev_batch
    /\ df_new[1] # <<>>
    /\ Len(before[1]) >= 2

--------------------------------------------------------------------------
(* Properties of a document's processing *)

\* the text holds the word, whatever the case of its letters
Mentions(text, word) ==
    \E i \in 1..(Len(text) - Len(word) + 1) :
        \A k \in 1..Len(word) :
            \/ text[i + k - 1] = word[k]
            \/ UpperChar(text[i + k - 1]) = word[k]
            \/ text[i + k - 1] = UpperChar(word[k])

Returned == dpc \in {"returned", "shown"}

\* C3: a document whose declared total is 0 (every Santander, BCI and
\* payslip document) is shown as valid whatever the extracted sum: the
\* valid icon, never the mismatch branch.
C3_ZeroTotalValid ==
    /\ (Returned /\ extractor \in {"extract_banco_generico",
                                   "extract_sueldo_samsonite"})
           => total_pdf = 0
    /\ (dpc = "shown" /\ total_pdf = 0)
           => /\ branch # "error"
              /\ txs # <<>> => (icon = "ok" /\ branch = "success")

\* a cartola with no declared total whose amounts are far from 0
C3_Witness ==
    /\ dpc = "shown"
    /\ extractor = "extract_banco_generico"
    /\ total_pdf = 0
    /\ txs # <<>>
    /\ Diff(total_pdf, SumMonto(txs)) >= Tolerance * 100
    /\ icon = "ok"

\* the extractor and bank name of the first rule, in the order of the
\* claim, whose word the text mentions
FirstRule(text) ==
    IF Mentions(text, <<"f","a","l","a","b","e","l","l","a">>) \/ Mentions(text, <<"c","m","r">>)
    THEN <<"extract_cmr_falabella", <<>>>>
    ELSE IF Mentions(text, <<"s","a","n","t","a","n","d","e","r">>)
    THEN <<"extract_banco_generico", BancoSantander>>
    ELSE IF Mentions(text, <<"b","c","i">>)
    THEN <<"extract_banco_generico", BancoBCI>>
    ELSE IF Mentions(text, <<"s","a","m","s","o","n","i","t","e">>) \/ Mentions(text, <<"l","i","q","u","i","d","a","c","i","o","n">>)
    THEN <<"extract_sueldo_samsonite", <<>>>>
    ELSE <<"none", <<>>>>

\* C4: process_pdf calls the extractor of the first rule that matches,
\* letters compared without case, in the order CMR, Santander, BCI, payslip;
\* a text that matches no rule gives no transactions and total 0.
C4_Detection ==
    dpc \notin {"idle", "process_pdf"} =>
        /\ <<extractor, banco_name>> = FirstRule(Join(doc))
        /\ (extractor = "none" /\ Returned) => (txs = <<>> /\ total_pdf = 0)

\* a text that names CMR in capitals and names Santander is handled as CMR
C4_Witness ==
    /\ Returned
    /\ extractor = "extract_cmr_falabella"
    /\ Mentions(Join(doc), <<"s","a","n","t","a","n","d","e","r">>)
    /\ ~Contains(Join(doc), <<"c","m","r">>)
    /\ ~Contains(Join(doc), <<"f","a","l","a","b","e","l","l","a">>)

NetPayLabel(line) ==
    Mentions(line, <<"L","Í","Q","U","I","D","O"," ","A"," ","P","A","G","O">>) \/ Mentions(line, <<"A"," ","P","A","G","A","R">>)

HasNumber(line) == \E i \in 1..Len(line) : line[i] \in Digits

\* the lines that hold a net-pay label and a number
PayLines == { i \in 1..Len(lines) : NetPayLabel(lines[i]) /\ HasNumber(lines[i]) }

SueldoReturned == Returned /\ extractor = "extract_sueldo_samsonite"

\* C7: extract_sueldo_samsonite emits at most one transaction, built from
\* the first line that holds a net-pay label and a numeric token: amount not
\* negative, category "Ingreso Familiar", and no later line examined.
C7_FirstPayLine ==
    SueldoReturned =>
        IF PayLines = {} THEN txs = <<>>
        ELSE /\ Len(txs) = 1
             /\ idx = Min(PayLines)
             /\ txs[1].Monto >= 0
             /\ txs[1].Categoria = "Ingreso Familiar"

\* What holds of the code: at most one transaction, from the first line
\* with a label and a run of digits, points or commas, a run without a
\* digit included.
PayRuns == { i \in 1..Len(lines) :
               /\ NetPayLabel(lines[i])
               /\ \E k \in 1..Len(lines[i]) : lines[i][k] \in Digits \cup {".", ","} }

SueldoFirstRun ==
    /\ extractor = "extract_sueldo_samsonite" => Len(transactions) <= 1
    /\ SueldoReturned =>
        IF PayRuns = {} THEN txs = <<>> /\ idx = Len(lines)
        ELSE /\ Len(txs) = 1
             /\ idx = Min(PayRuns)
             /\ txs[1].Monto >= 0
             /\ txs[1].Categoria = "Ingreso Familiar"

\* a line that matched the total label has gone through the CMR loop
SeenTotalLabel ==
    /\ extractor = "extract_cmr_falabella"
    /\ \E j \in 1..idx : rx_total(Upper(lines[j])).ok

\* C8: in extract_cmr_falabella, once a line that matches the total label
\* has been seen, no later line changes the declared total.
C8_FirstTotalOnly == [][SeenTotalLabel => total_detected' = total_detected]_vars

--------------------------------------------------------------------------
(* Properties of apply_rules *)

RuleCats == <<"Ingreso Familiar", "Ingreso Familiar", "Arriendo",
              "Gastos Comunes", "Supermercado">>

\* which of the five rules the row matches: payslip source, income sender,
\* rent payer, condominium, supermarket
RuleHits(row) ==
    << Mentions(row.Banco_Origen, <<"L","I","Q","U","I","D","A","C","I","Ó","N">>),
       Mentions(row.Descripcion, <<"M","A","R","C","E","L","A"," ","C","O","N","T","R","E","R","A","S">>),
       Mentions(row.Descripcion, <<"M","A","R","C","E","L","O"," ","C","O","N","T","R","E","R","A","S">>),
       Mentions(row.Descripcion, <<"E","D","I","P","R","O">>)
           \/ Mentions(row.Descripcion, <<"C","A","R","O","L"," ","U","R","Z","U","A">>),
       Mentions(row.Descripcion, <<"T","O","T","U","S">>)
           \/ Mentions(row.Descripcion, <<"L","I","D","E","R">>)
           \/ Mentions(row.Descripcion, <<"J","U","M","B","O">>) >>

FirstRuleCat(row) ==
    LET hits == { r \in 1..Len(RuleCats) : RuleHits(row)[r] }
    IN  IF hits = {} THEN row.Categoria ELSE RuleCats[Min(hits)]

\* C5: apply_rules gives each transaction the category of the first rule
\* that matches, in the fixed order, and leaves it as it is when none does.
C5_FirstRuleWins ==
    rpc \in {"once", "twice"} =>
        /\ Len(rout) = Len(rdf)
        /\ \A i \in 1..Len(rdf) :
              rout[i] = [rdf[i] EXCEPT !.Categoria = FirstRuleCat(rdf[i])]

\* a description with a supermarket token and the rent payer's is rent
C5_Witness ==
    /\ rpc = "once"
    /\ \E i \in 1..Len(rdf) :
          /\ RuleHits(rdf[i]) = <<FALSE, FALSE, TRUE, FALSE, TRUE>>
          /\ rdf[i].Categoria # "Arriendo"
          /\ rout[i].Categoria = "Arriendo"

\* C6: classifying a classified batch changes nothing.
C6_Idempotent == rpc = "twice" => rout2 = rout

\* a batch of two rows, one with its category changed by the first pass
C6_Witness ==
    /\ rpc = "twice"
    /\ Len(rdf) >= 2
    /\ \E i \in 1..Len(rdf) : rout[i].Categoria # rdf[i].Categoria
    /\ \E i \in 1..Len(rdf) : rout[i].Categoria = rdf[i].Categoria

==========================================================================
